---- MODULE Spec2Model ----
(***************************************************************************)
(* Model of src/deploy.ts (deployStack, updateStack, cleanupChangeSet,     *)
(* genCfnUrl, getStack, getStackOutputs) and src/utils.ts                  *)
(* (parseParameters).  One invocation of one exported function is modelled *)
(* per behaviour; every await of the code is one step.  The provider and   *)
(* the link shortener are opaque: each call may succeed or fail.           *)
(*                                                                         *)
(* Optional values (T | undefined) are None == <<>> or Some(x) == <<x>>.   *)
(* Message texts are sequences of words, parameter strings are sequences   *)
(* of characters.                                                          *)
(***************************************************************************)
EXTENDS Integers, Sequences, FiniteSets, TLC

VARIABLES
    entry,                    \* which exported function was invoked
    StackName,                \* params.StackName / stackId argument
    noEmptyChangeSet,         \* deployStack arguments
    noExecuteChageSet,
    noDeleteFailedChangeSet,
    parameterOverrides,       \* parseParameters argument
    numberString,             \* parseNumber argument
    pc,                       \* position of the invocation
    described,                \* raw describeStacks response, once received
    stack,                    \* result of getStack
    cset,                     \* createChangeSet response
    changeSetStatus,          \* describeChangeSet response
    calls,                    \* remote calls issued so far, in order
    outcome,                  \* how the invocation ended
    runs,                     \* concurrent deployStack invocations, each with
                              \* its own locals
    changeSets,               \* the change sets the provider holds
    nextChangeSetId           \* the provider's next change-set id

vars == <<entry, StackName, noEmptyChangeSet, noExecuteChageSet,
          noDeleteFailedChangeSet, parameterOverrides, numberString, pc,
          described, stack,
          cset, changeSetStatus, calls, outcome, runs, changeSets,
          nextChangeSetId>>

None == <<>>
Some(x) == <<x>>
Get(o) == o[1]

(* ------------------------------ bounds -------------------------------- *)
MaxOutputs == 2
MaxLen == 6
MaxNumLen == 4
NumRuns == 2

(* --------------------------- string helpers --------------------------- *)
\* String.prototype.includes / RegExp match of a literal, on sequences
Includes(hay, needle) ==
    \E i \in 0..(Len(hay) - Len(needle)) :
        SubSeq(hay, i + 1, i + Len(needle)) = needle

RECURSIVE SomeIncludes(_, _)
\* Array.prototype.some(err => reason?.includes(err))
SomeIncludes(patterns, reason) ==
    IF patterns = <<>> THEN FALSE
    ELSE IF reason # None /\ Includes(Get(reason), Head(patterns)) THEN TRUE
    ELSE SomeIncludes(Tail(patterns), reason)

\* `${x}` of an optional string: undefined prints as the word undefined
TemplateString(o) == IF o = None THEN <<"undefined">> ELSE Get(o)

(* ------------------------------ errors -------------------------------- *)
NoError == [code |-> "", message |-> <<>>]

DoesNotExist == <<"does", "not", "exist">>

StackNames == {"app", "db"}

StackIdOf(name) == "arn:stack/" \o name
ChangeSetIdOf(name) == "arn:changeSet/" \o name

\* errors the stack lookup can meet
LookupErrors(name) ==
    { [code |-> "ValidationError",
       message |-> <<"Stack", "with", "id", name, "does", "not", "exist">>],
      [code |-> "ValidationError",
       message |-> <<"Stack", "name", "is", "not", "valid">>],
      [code |-> "AccessDenied",
       message |-> <<"Stack", "does", "not", "exist", "or", "no", "access">>],
      [code |-> "Throttling", message |-> <<"Rate", "exceeded">>] }

\* errors any other provider call can meet
ProviderErrors ==
    { [code |-> "Throttling", message |-> <<"Rate", "exceeded">>],
      [code |-> "ValidationError",
       message |-> <<"ChangeSet", "does", "not", "exist">>] }

WaiterErrors ==
    { [code |-> "ResourceNotReady",
       message |-> <<"Resource", "is", "not", "in", "the", "state">>] }

ShortenerErrors ==
    { [code |-> "ERR_BAD_REQUEST", message |-> <<"Request", "failed">>] }

(* ------------------------- provider responses ------------------------- *)
SeqsUpTo(S, n) == UNION { [1..k -> S] : k \in 0..n }

OutputKeys == {None, Some(""), Some("k1"), Some("k2")}
OutputValues == {None, Some(""), Some("v1"), Some("v2")}
Outputs == [OutputKey : OutputKeys, OutputValue : OutputValues]
OutputLists == SeqsUpTo(Outputs, MaxOutputs)

StackRecord(id, outs) == [StackId |-> id, Outputs |-> outs]

\* the stacks a describeStacks answer may carry for this invocation
StacksFor(e, name) ==
    IF e = "getStackOutputs"
    THEN { StackRecord(StackIdOf(name), o) :
               o \in {None} \cup { Some(l) : l \in OutputLists } }
    ELSE { StackRecord(StackIdOf(name), None) }

DescribeStacksResponses(e, name) ==
    { [ok |-> TRUE, Stacks |-> None, error |-> NoError],
      [ok |-> TRUE, Stacks |-> Some(<<>>), error |-> NoError] }
    \cup { [ok |-> TRUE, Stacks |-> Some(<<s>>), error |-> NoError] :
               s \in StacksFor(e, name) }
    \cup { [ok |-> TRUE,
            Stacks |-> Some(<<s, StackRecord("arn:stack/other", None)>>),
            error |-> NoError] : s \in StacksFor("deployStack", name) }
    \cup { [ok |-> FALSE, Stacks |-> None, error |-> err] :
               err \in LookupErrors(name) }

Statuses == {"FAILED", "CREATE_IN_PROGRESS", "CREATE_PENDING", "CREATE_COMPLETE"}

StatusReasons ==
    { None,
      Some(<<"No", "updates", "are", "to", "be", "performed">>),
      Some(<<"Error", ":", "No", "updates", "are", "to", "be", "performed", ".">>),
      Some(<<"The", "submitted", "information", "didn't", "contain", "changes",
             ".", "Submit", "different", "information">>),
      Some(<<"No", "updates">>),
      Some(<<"Template", "format", "error">>) }

DescribeChangeSetResponses ==
    [Status : Statuses, StatusReason : StatusReasons]

(* ------------------------------ outcomes ------------------------------ *)
Pending == [kind |-> "pending", value |-> None, error |-> NoError]
Returned(v) == [kind |-> "returned", value |-> v, error |-> NoError]
Threw(e) == [kind |-> "threw", value |-> None, error |-> e]

Call(op, csName, sName, ok) ==
    [op |-> op, ChangeSetName |-> csName, StackName |-> sName, ok |-> ok]

(* ------------------------------ getStack ------------------------------ *)
\* mutant: every ValidationError counts as "does not exist"
GetStack_AnyValidationError(resp) ==
    IF resp.ok
    THEN Returned(IF resp.Stacks = None \/ Get(resp.Stacks) = <<>>
                  THEN None
                  ELSE Some(Get(resp.Stacks)[1]))
    ELSE IF resp.error.code = "ValidationError"
         THEN Returned(None)
         ELSE Threw(resp.error)

\* deploy.ts getStack: the first stack, undefined for "does not exist",
\* any other error rethrown
GetStack(resp) ==
    IF resp.ok
    THEN Returned(IF resp.Stacks = None \/ Get(resp.Stacks) = <<>>
                  THEN None
                  ELSE Some(Get(resp.Stacks)[1]))
    ELSE IF resp.error.code = "ValidationError"
            /\ Includes(resp.error.message, DoesNotExist)
         THEN Returned(None)
         ELSE Threw(resp.error)

(* --------------------------- cleanupChangeSet ------------------------- *)
knownErrorMessages ==
    << <<"No", "updates", "are", "to", "be", "performed">>,
       <<"The", "submitted", "information", "didn't", "contain", "changes">> >>

\* mutant: the skip-delete flag is ignored
DeletesFailedChangeSet_IgnoresSkip(status, noDelete) ==
    status.Status = "FAILED"

\* whether the failed change set is deleted
DeletesFailedChangeSet(status, noDelete) ==
    status.Status = "FAILED" /\ ~noDelete

\* mutant: only the first known message is recognised
FailedChangeSetOutcome_FirstPatternOnly(status, stk, noEmpty) ==
    IF noEmpty /\ SomeIncludes(<<knownErrorMessages[1]>>, status.StatusReason)
    THEN Returned(Some(stk.StackId))
    ELSE Threw([code |-> "Error",
                message |-> <<"Failed", "to", "create", "Change", "Set", ":">>
                            \o TemplateString(status.StatusReason)])

\* mutant: a known message is a success whatever noEmptyChangeSet says
FailedChangeSetOutcome_IgnoresFlag(status, stk, noEmpty) ==
    IF SomeIncludes(knownErrorMessages, status.StatusReason)
    THEN Returned(Some(stk.StackId))
    ELSE Threw([code |-> "Error",
                message |-> <<"Failed", "to", "create", "Change", "Set", ":">>
                            \o TemplateString(status.StatusReason)])

\* how cleanup ends for a FAILED change set, after the optional delete
FailedChangeSetOutcome(status, stk, noEmpty) ==
    IF noEmpty /\ SomeIncludes(knownErrorMessages, status.StatusReason)
    THEN Returned(Some(stk.StackId))
    ELSE Threw([code |-> "Error",
                message |-> <<"Failed", "to", "create", "Change", "Set", ":">>
                            \o TemplateString(status.StatusReason)])

\* how cleanup ends when no delete call is awaited: a status other than
\* FAILED falls off the end of the function
CleanupOutcome(status, stk, noEmpty) ==
    IF status.Status = "FAILED"
    THEN FailedChangeSetOutcome(status, stk, noEmpty)
    ELSE Returned(None)

(* ----------------------------- deployStack ---------------------------- *)
\* mutant: the change set is named after the stack, without the suffix
ChangeSetParams_Unsuffixed(name) ==
    [ChangeSetName |-> name, StackName |-> name]

\* the request deployStack builds for updateStack
ChangeSetParams(name) ==
    [ChangeSetName |-> name \o "-CS", StackName |-> name]

\* mutant: the change-set path is taken for a missing stack too
AfterLookup_AlwaysUpdates(stk) == "createChangeSet"

\* where deployStack goes once the lookup has answered
AfterLookup(stk) == IF stk = None THEN "createStack" ELSE "createChangeSet"

\* mutant: the no-execute flag is ignored
AfterChangeSetCreated_AlwaysExecutes(noExecute) == "executeChangeSet"

\* where updateStack goes once the change set has been created
AfterChangeSetCreated(noExecute) ==
    IF noExecute THEN "genCfnUrl" ELSE "executeChangeSet"

\* mutant: a failed shortening call falls back to the long URL
GenCfnUrlOutcome_FallsBack(ok, err, stk) == Returned(Some(stk.StackId))

\* genCfnUrl inside updateStack: the short link is logged, the stack id
\* returned; a failed shortening call rejects
GenCfnUrlOutcome(ok, err, stk) ==
    IF ok THEN Returned(Some(stk.StackId)) ELSE Threw(err)

Finish(o) == /\ outcome' = o
             /\ pc' = "done"

ConfigUnchanged ==
    UNCHANGED <<entry, StackName, noEmptyChangeSet, noExecuteChageSet,
                noDeleteFailedChangeSet, parameterOverrides, numberString,
                runs, changeSets, nextChangeSetId>>

\* deployStack: const stack = await getStack(cfn, params.StackName)
LookupStack ==
    /\ entry = "deployStack"
    /\ pc = "getStack"
    /\ \E resp \in DescribeStacksResponses(entry, StackName) :
          /\ described' = Some(resp)
          /\ calls' = Append(calls, Call("describeStacks", None, StackName, resp.ok))
          /\ LET r == GetStack(resp) IN
                IF r.kind = "threw"
                THEN Finish(r) /\ UNCHANGED stack
                ELSE /\ stack' = r.value
                     /\ pc' = AfterLookup(r.value)
                     /\ UNCHANGED outcome
    /\ UNCHANGED <<cset, changeSetStatus>>
    /\ ConfigUnchanged

\* mutant: the new stack's id is returned without waiting for completion
CreateStack_ReturnsEarly ==
    /\ pc = "createStack"
    /\ \E ok \in BOOLEAN, err \in ProviderErrors :
          /\ calls' = Append(calls, Call("createStack", None, StackName, ok))
          /\ Finish(IF ok THEN Returned(Some(StackIdOf(StackName))) ELSE Threw(err))
    /\ UNCHANGED <<described, stack, cset, changeSetStatus>>
    /\ ConfigUnchanged

\* deployStack: await cfn.createStack(params).promise()
CreateStack ==
    /\ pc = "createStack"
    /\ \E ok \in BOOLEAN, err \in ProviderErrors :
          /\ calls' = Append(calls, Call("createStack", None, StackName, ok))
          /\ IF ok
             THEN /\ stack' = Some(StackRecord(StackIdOf(StackName), None))
                  /\ pc' = "waitStackCreate"
                  /\ UNCHANGED outcome
             ELSE Finish(Threw(err)) /\ UNCHANGED stack
    /\ UNCHANGED <<described, cset, changeSetStatus>>
    /\ ConfigUnchanged

\* deployStack: await waitFor('stackCreateComplete'); return stack.StackId
WaitStackCreateComplete ==
    /\ pc = "waitStackCreate"
    /\ \E ok \in BOOLEAN, err \in WaiterErrors :
          /\ calls' = Append(calls,
                 Call("waitFor:stackCreateComplete", None, StackName, ok))
          /\ Finish(IF ok THEN Returned(Some(Get(stack).StackId)) ELSE Threw(err))
    /\ UNCHANGED <<described, stack, cset, changeSetStatus>>
    /\ ConfigUnchanged

\* mutant: a failed createChangeSet is caught and sent to cleanup
CreateChangeSet_CleansUpOnFailure ==
    /\ pc = "createChangeSet"
    /\ \E ok \in BOOLEAN :
          LET p == ChangeSetParams(StackName) IN
          /\ calls' = Append(calls,
                 Call("createChangeSet", Some(p.ChangeSetName), p.StackName, ok))
          /\ cset' = IF ok THEN Some([Id |-> ChangeSetIdOf(p.ChangeSetName)])
                           ELSE cset
          /\ pc' = IF ok THEN "waitChangeSet" ELSE "describeChangeSet"
    /\ UNCHANGED <<described, stack, changeSetStatus, outcome>>
    /\ ConfigUnchanged

\* updateStack: const cset = await cfn.createChangeSet(params).promise()
CreateChangeSet ==
    /\ pc = "createChangeSet"
    /\ \E ok \in BOOLEAN, err \in ProviderErrors :
          LET p == ChangeSetParams(StackName) IN
          /\ calls' = Append(calls,
                 Call("createChangeSet", Some(p.ChangeSetName), p.StackName, ok))
          /\ IF ok
             THEN /\ cset' = Some([Id |-> ChangeSetIdOf(p.ChangeSetName)])
                  /\ pc' = "waitChangeSet"
                  /\ UNCHANGED outcome
             ELSE Finish(Threw(err)) /\ UNCHANGED cset
    /\ UNCHANGED <<described, stack, changeSetStatus>>
    /\ ConfigUnchanged

\* updateStack: try { await waitFor('changeSetCreateComplete') } catch
WaitChangeSetCreateComplete ==
    /\ pc = "waitChangeSet"
    /\ \E ok \in BOOLEAN :
          LET p == ChangeSetParams(StackName) IN
          /\ calls' = Append(calls,
                 Call("waitFor:changeSetCreateComplete",
                      Some(p.ChangeSetName), p.StackName, ok))
          /\ pc' = IF ok THEN AfterChangeSetCreated(noExecuteChageSet)
                         ELSE "describeChangeSet"
    /\ UNCHANGED <<described, stack, cset, changeSetStatus, outcome>>
    /\ ConfigUnchanged

\* cleanupChangeSet: await cfn.describeChangeSet(...), and everything up to
\* the next await or the end of the function
DescribeChangeSet ==
    /\ pc = "describeChangeSet"
    /\ \E ok \in BOOLEAN, err \in ProviderErrors,
          resp \in DescribeChangeSetResponses :
          LET p == ChangeSetParams(StackName) IN
          /\ calls' = Append(calls,
                 Call("describeChangeSet", Some(p.ChangeSetName), p.StackName, ok))
          /\ IF ~ok
             THEN Finish(Threw(err)) /\ UNCHANGED changeSetStatus
             ELSE /\ changeSetStatus' = Some(resp)
                  /\ IF DeletesFailedChangeSet(resp, noDeleteFailedChangeSet)
                     THEN pc' = "deleteChangeSet" /\ UNCHANGED outcome
                     ELSE Finish(CleanupOutcome(resp, Get(stack), noEmptyChangeSet))
    /\ UNCHANGED <<described, stack, cset>>
    /\ ConfigUnchanged

\* mutant: a failed deleteChangeSet is tried again
DeleteChangeSet_RetriesOnFailure ==
    /\ pc = "deleteChangeSet"
    /\ \E ok \in BOOLEAN :
          LET p == ChangeSetParams(StackName) IN
          /\ calls' = Append(calls,
                 Call("deleteChangeSet", Some(p.ChangeSetName), p.StackName, ok))
          /\ IF ok
             THEN Finish(FailedChangeSetOutcome(Get(changeSetStatus), Get(stack),
                                                noEmptyChangeSet))
             ELSE UNCHANGED <<pc, outcome>>
    /\ UNCHANGED <<described, stack, cset, changeSetStatus>>
    /\ ConfigUnchanged

\* cleanupChangeSet: await cfn.deleteChangeSet(...), then the verdict
DeleteChangeSet ==
    /\ pc = "deleteChangeSet"
    /\ \E ok \in BOOLEAN, err \in ProviderErrors :
          LET p == ChangeSetParams(StackName) IN
          /\ calls' = Append(calls,
                 Call("deleteChangeSet", Some(p.ChangeSetName), p.StackName, ok))
          /\ Finish(IF ok
                    THEN FailedChangeSetOutcome(Get(changeSetStatus), Get(stack),
                                                noEmptyChangeSet)
                    ELSE Threw(err))
    /\ UNCHANGED <<described, stack, cset, changeSetStatus>>
    /\ ConfigUnchanged

\* updateStack, no-execute branch: core.info(await genCfnUrl(...))
GenCfnUrl ==
    /\ pc = "genCfnUrl"
    /\ \E ok \in BOOLEAN, err \in ShortenerErrors :
          /\ calls' = Append(calls, Call("shorten", None, StackName, ok))
          /\ Finish(GenCfnUrlOutcome(ok, err, Get(stack)))
    /\ UNCHANGED <<described, stack, cset, changeSetStatus>>
    /\ ConfigUnchanged

\* mutant: the stack id is returned as soon as the execution is accepted
ExecuteChangeSet_ReturnsEarly ==
    /\ pc = "executeChangeSet"
    /\ \E ok \in BOOLEAN, err \in ProviderErrors :
          LET p == ChangeSetParams(StackName) IN
          /\ calls' = Append(calls,
                 Call("executeChangeSet", Some(p.ChangeSetName), p.StackName, ok))
          /\ Finish(IF ok THEN Returned(Some(Get(stack).StackId)) ELSE Threw(err))
    /\ UNCHANGED <<described, stack, cset, changeSetStatus>>
    /\ ConfigUnchanged

\* updateStack: await cfn.executeChangeSet(...)
ExecuteChangeSet ==
    /\ pc = "executeChangeSet"
    /\ \E ok \in BOOLEAN, err \in ProviderErrors :
          LET p == ChangeSetParams(StackName) IN
          /\ calls' = Append(calls,
                 Call("executeChangeSet", Some(p.ChangeSetName), p.StackName, ok))
          /\ IF ok THEN pc' = "waitStackUpdate" /\ UNCHANGED outcome
                   ELSE Finish(Threw(err))
    /\ UNCHANGED <<described, stack, cset, changeSetStatus>>
    /\ ConfigUnchanged

\* mutant: a failed update is answered by a fresh change set
WaitStackUpdateComplete_RedeploysOnFailure ==
    /\ pc = "waitStackUpdate"
    /\ \E ok \in BOOLEAN :
          /\ calls' = Append(calls,
                 Call("waitFor:stackUpdateComplete", None, Get(stack).StackId, ok))
          /\ IF ok THEN Finish(Returned(Some(Get(stack).StackId)))
                   ELSE pc' = "createChangeSet" /\ UNCHANGED outcome
    /\ UNCHANGED <<described, stack, cset, changeSetStatus>>
    /\ ConfigUnchanged

\* updateStack: await waitFor('stackUpdateComplete'); return stack.StackId
WaitStackUpdateComplete ==
    /\ pc = "waitStackUpdate"
    /\ \E ok \in BOOLEAN, err \in WaiterErrors :
          /\ calls' = Append(calls,
                 Call("waitFor:stackUpdateComplete", None, Get(stack).StackId, ok))
          /\ Finish(IF ok THEN Returned(Some(Get(stack).StackId)) ELSE Threw(err))
    /\ UNCHANGED <<described, stack, cset, changeSetStatus>>
    /\ ConfigUnchanged

(* --------------------------- Map<string, T> --------------------------- *)
\* a Map is the sequence of its <<key, value>> entries in insertion order
MapHas(m, k) == \E i \in 1..Len(m) : m[i][1] = k

\* Map.prototype.get: the stored value, undefined when the key is missing
MapGet(m, k) ==
    IF MapHas(m, k)
    THEN m[CHOOSE i \in 1..Len(m) : m[i][1] = k][2]
    ELSE None

\* mutant: an existing key keeps its first value
MapSet_KeepsFirst(m, k, v) ==
    IF MapHas(m, k) THEN m ELSE Append(m, <<k, v>>)

\* Map.prototype.set: an existing key keeps its position
MapSet(m, k, v) ==
    IF MapHas(m, k)
    THEN [i \in 1..Len(m) |-> IF m[i][1] = k THEN <<k, v>> ELSE m[i]]
    ELSE Append(m, <<k, v>>)

(* --------------------------- getStackOutputs -------------------------- *)
\* truthiness of an optional string: neither undefined nor empty
Truthy(o) == o # None /\ Get(o) # ""

RECURSIVE CollectOutputs(_, _)
\* the for loop of getStackOutputs over stack.Outputs
CollectOutputs(outs, m) ==
    IF outs = <<>> THEN m
    ELSE LET output == Head(outs) IN
         CollectOutputs(Tail(outs),
             IF Truthy(output.OutputKey) /\ Truthy(output.OutputValue)
             THEN MapSet(m, Get(output.OutputKey), Some(Get(output.OutputValue)))
             ELSE m)

\* the map getStackOutputs returns for the result of getStack
StackOutputs(stk) ==
    IF stk # None /\ Get(stk).Outputs # None
    THEN CollectOutputs(Get(Get(stk).Outputs), <<>>)
    ELSE <<>>

\* getStackOutputs: await getStack(cfn, stackId), then the loop
GetStackOutputs ==
    /\ entry = "getStackOutputs"
    /\ pc = "getStack"
    /\ \E resp \in DescribeStacksResponses(entry, StackName) :
          /\ described' = Some(resp)
          /\ calls' = Append(calls, Call("describeStacks", None, StackName, resp.ok))
          /\ LET r == GetStack(resp) IN
                IF r.kind = "threw"
                THEN Finish(r) /\ UNCHANGED stack
                ELSE /\ stack' = r.value
                     /\ Finish(Returned(StackOutputs(r.value)))
    /\ UNCHANGED <<cset, changeSetStatus>>
    /\ ConfigUnchanged

(* --------------------------- parseParameters -------------------------- *)
Chars == {"A", "B", "=", ",", " "}

RECURSIVE Split(_, _)
\* String.prototype.split(sep) for a one-character separator
Split(s, sep) ==
    IF \E i \in 1..Len(s) : s[i] = sep
    THEN LET i == CHOOSE i \in 1..Len(s) :
                      s[i] = sep /\ \A j \in 1..(i - 1) : s[j] # sep
         IN <<SubSeq(s, 1, i - 1)>> \o Split(SubSeq(s, i + 1, Len(s)), sep)
    ELSE <<s>>

RECURSIVE Trim(_)
\* String.prototype.trim
Trim(s) ==
    IF s = <<>> THEN s
    ELSE IF Head(s) = " " THEN Trim(Tail(s))
    ELSE IF s[Len(s)] = " " THEN Trim(SubSeq(s, 1, Len(s) - 1))
    ELSE s

\* [param, value].join(','): undefined joins as the empty string
JoinPair(param, value) ==
    param \o <<",">> \o (IF value = None THEN <<>> ELSE Get(value))

\* one round of the forEach body of parseParameters
AddParameter(m, parameter) ==
    LET kv == Split(Trim(parameter), "=")
        key == kv[1]
        value == IF Len(kv) >= 2 THEN Some(kv[2]) ELSE None
        param == MapGet(m, key)
    IN MapSet(m, key,
              IF param = None \/ Get(param) = <<>>
              THEN value
              ELSE Some(JoinPair(Get(param), value)))

RECURSIVE AddParameters(_, _)
AddParameters(m, pieces) ==
    IF pieces = <<>> THEN m
    ELSE AddParameters(AddParameter(m, Head(pieces)), Tail(pieces))

\* utils.ts parseParameters
ParseParameters(s) ==
    LET m == AddParameters(<<>>, Split(s, ","))
    IN [i \in 1..Len(m) |->
           [ParameterKey |-> m[i][1], ParameterValue |-> m[i][2]]]

\* one call of parseParameters
CallParseParameters ==
    /\ entry = "parseParameters"
    /\ pc = "parseParameters"
    /\ Finish(Returned(ParseParameters(parameterOverrides)))
    /\ UNCHANGED <<described, stack, cset, changeSetStatus, calls>>
    /\ ConfigUnchanged

(* ----------------------------- parseNumber ---------------------------- *)
NumChars == {"0", "1", "7", "A", "x", "-", "+", " "}

\* value of a character as a digit; 36 for a character that is no digit
DigitValue(c) ==
    CASE c = "0" -> 0
      [] c = "1" -> 1
      [] c = "7" -> 7
      [] c = "A" -> 10
      [] OTHER -> 36

RECURSIVE StripLeadingSpace(_)
\* parseInt skips leading white space
StripLeadingSpace(str) ==
    IF str # <<>> /\ Head(str) = " " THEN StripLeadingSpace(Tail(str)) ELSE str

RECURSIVE DigitPrefix(_, _)
\* the longest prefix made of digits of the radix
DigitPrefix(str, radix) ==
    IF str # <<>> /\ DigitValue(Head(str)) < radix
    THEN <<Head(str)>> \o DigitPrefix(Tail(str), radix)
    ELSE <<>>

RECURSIVE DigitsValue(_, _, _)
DigitsValue(digits, radix, acc) ==
    IF digits = <<>> THEN acc
    ELSE DigitsValue(Tail(digits), radix, acc * radix + DigitValue(Head(digits)))

\* parseInt(string) with no radix argument: white space, a sign, a 0x prefix
\* selecting radix 16, then the digits; None stands for NaN
ParseInt(str) ==
    LET t == StripLeadingSpace(str)
        negative == t # <<>> /\ Head(t) = "-"
        u == IF t # <<>> /\ Head(t) \in {"+", "-"} THEN Tail(t) ELSE t
        hex == Len(u) >= 2 /\ u[1] = "0" /\ u[2] = "x"
        radix == IF hex THEN 16 ELSE 10
        z == DigitPrefix(IF hex THEN SubSeq(u, 3, Len(u)) ELSE u, radix)
    IN IF z = <<>> THEN None
       ELSE Some((IF negative THEN -1 ELSE 1) * DigitsValue(z, radix, 0))

\* utils.ts parseNumber: parseInt(s) || undefined
ParseNumber(str) ==
    LET n == ParseInt(str)
    IN IF n = None \/ Get(n) = 0 THEN None ELSE n

\* one call of parseNumber
CallParseNumber ==
    /\ entry = "parseNumber"
    /\ pc = "parseNumber"
    /\ Finish(Returned(ParseNumber(numberString)))
    /\ UNCHANGED <<described, stack, cset, changeSetStatus, calls>>
    /\ ConfigUnchanged

(* ------------------- concurrent deployStack invocations --------------- *)
(* Several invocations of deployStack with the same arguments against the  *)
(* same existing stack.  Each has its own locals (runs[r]); the provider's *)
(* change sets are the only state they share.  The provider keeps at most  *)
(* one change set per (StackName, ChangeSetName); a createChangeSet for a  *)
(* name in use is either refused or answered with the change set that      *)
(* already carries the name.                                               *)
Runs == 1..NumRuns

NewRun(at) ==
    [pc |-> at, stack |-> None, cset |-> None, changeSetStatus |-> None,
     outcome |-> Pending, touched |-> {}]

\* the change sets a request with these names addresses
Addressed(p) ==
    { c \in changeSets :
          c.ChangeSetName = p.ChangeSetName /\ c.StackName = p.StackName }

\* a lookup of an existing stack: the stack, or an error
ExistingStackResponses(name) ==
    { resp \in DescribeStacksResponses("deployStack", name) :
          resp.ok => (resp.Stacks # None /\ Get(resp.Stacks) # <<>>) }

ConcurrentStatusReasons ==
    { None, Some(<<"No", "updates", "are", "to", "be", "performed">>) }

RunFinish(r, o) ==
    runs' = [runs EXCEPT ![r].outcome = o, ![r].pc = "done"]

ArgsUnchanged ==
    UNCHANGED <<entry, StackName, noEmptyChangeSet, noExecuteChageSet,
                noDeleteFailedChangeSet, parameterOverrides, numberString,
                pc, described, stack, cset, changeSetStatus, calls, outcome>>

\* deployStack: const stack = await getStack(cfn, params.StackName)
RunLookupStack(r) ==
    /\ runs[r].pc = "getStack"
    /\ \E resp \in ExistingStackResponses(StackName) :
          LET res == GetStack(resp) IN
          IF res.kind = "threw"
          THEN RunFinish(r, res)
          ELSE runs' = [runs EXCEPT ![r].stack = res.value,
                                    ![r].pc = AfterLookup(res.value)]
    /\ UNCHANGED <<changeSets, nextChangeSetId>>
    /\ ArgsUnchanged

\* updateStack: const cset = await cfn.createChangeSet(params).promise()
RunCreateChangeSet(r) ==
    /\ runs[r].pc = "createChangeSet"
    /\ LET p == ChangeSetParams(StackName) IN
          \/ /\ \E err \in ProviderErrors : RunFinish(r, Threw(err))
             /\ UNCHANGED <<changeSets, nextChangeSetId>>
          \/ /\ Addressed(p) = {}
             /\ changeSets' = changeSets \cup
                    { [ChangeSetName |-> p.ChangeSetName,
                       StackName |-> p.StackName,
                       Id |-> nextChangeSetId, creator |-> r] }
             /\ nextChangeSetId' = nextChangeSetId + 1
             /\ runs' = [runs EXCEPT ![r].cset = Some([Id |-> nextChangeSetId]),
                                     ![r].pc = "waitChangeSet"]
          \/ /\ \E c \in Addressed(p) :
                   runs' = [runs EXCEPT ![r].cset = Some([Id |-> c.Id]),
                                        ![r].pc = "waitChangeSet"]
             /\ UNCHANGED <<changeSets, nextChangeSetId>>
    /\ ArgsUnchanged

\* updateStack: try { await waitFor('changeSetCreateComplete') } catch
RunWaitChangeSetCreateComplete(r) ==
    /\ runs[r].pc = "waitChangeSet"
    /\ \E ok \in BOOLEAN :
          runs' = [runs EXCEPT ![r].pc =
                       IF ok THEN AfterChangeSetCreated(noExecuteChageSet)
                             ELSE "describeChangeSet"]
    /\ UNCHANGED <<changeSets, nextChangeSetId>>
    /\ ArgsUnchanged

\* cleanupChangeSet: await cfn.describeChangeSet(...), up to the next await
RunDescribeChangeSet(r) ==
    /\ runs[r].pc = "describeChangeSet"
    /\ LET p == ChangeSetParams(StackName) IN
          \/ \E err \in ProviderErrors : RunFinish(r, Threw(err))
          \/ \E c \in Addressed(p), st \in Statuses,
                reason \in ConcurrentStatusReasons :
                LET resp == [Status |-> st, StatusReason |-> reason] IN
                runs' = [runs EXCEPT
                    ![r].changeSetStatus = Some(resp),
                    ![r].touched = @ \cup {c.creator},
                    ![r].pc =
                        IF DeletesFailedChangeSet(resp, noDeleteFailedChangeSet)
                        THEN "deleteChangeSet" ELSE "done",
                    ![r].outcome =
                        IF DeletesFailedChangeSet(resp, noDeleteFailedChangeSet)
                        THEN @
                        ELSE CleanupOutcome(resp, Get(runs[r].stack),
                                            noEmptyChangeSet)]
    /\ UNCHANGED <<changeSets, nextChangeSetId>>
    /\ ArgsUnchanged

\* cleanupChangeSet: await cfn.deleteChangeSet(...), then the verdict
RunDeleteChangeSet(r) ==
    /\ runs[r].pc = "deleteChangeSet"
    /\ LET p == ChangeSetParams(StackName) IN
          \/ /\ \E err \in ProviderErrors : RunFinish(r, Threw(err))
             /\ UNCHANGED changeSets
          \/ /\ \E c \in Addressed(p) :
                   /\ changeSets' = changeSets \ {c}
                   /\ runs' = [runs EXCEPT
                          ![r].touched = @ \cup {c.creator},
                          ![r].pc = "done",
                          ![r].outcome =
                              FailedChangeSetOutcome(
                                  Get(runs[r].changeSetStatus),
                                  Get(runs[r].stack), noEmptyChangeSet)]
    /\ UNCHANGED nextChangeSetId
    /\ ArgsUnchanged

\* updateStack, no-execute branch: core.info(await genCfnUrl(...))
RunGenCfnUrl(r) ==
    /\ runs[r].pc = "genCfnUrl"
    /\ \E ok \in BOOLEAN, err \in ShortenerErrors :
          RunFinish(r, GenCfnUrlOutcome(ok, err, Get(runs[r].stack)))
    /\ UNCHANGED <<changeSets, nextChangeSetId>>
    /\ ArgsUnchanged

\* updateStack: await cfn.executeChangeSet(...); an executed change set no
\* longer occupies its name
RunExecuteChangeSet(r) ==
    /\ runs[r].pc = "executeChangeSet"
    /\ LET p == ChangeSetParams(StackName) IN
          \/ /\ \E err \in ProviderErrors : RunFinish(r, Threw(err))
             /\ UNCHANGED changeSets
          \/ /\ \E c \in Addressed(p) :
                   /\ changeSets' = changeSets \ {c}
                   /\ runs' = [runs EXCEPT ![r].touched = @ \cup {c.creator},
                                           ![r].pc = "waitStackUpdate"]
    /\ UNCHANGED nextChangeSetId
    /\ ArgsUnchanged

\* updateStack: await waitFor('stackUpdateComplete'); return stack.StackId
RunWaitStackUpdateComplete(r) ==
    /\ runs[r].pc = "waitStackUpdate"
    /\ \E ok \in BOOLEAN, err \in WaiterErrors :
          RunFinish(r, IF ok THEN Returned(Some(Get(runs[r].stack).StackId))
                             ELSE Threw(err))
    /\ UNCHANGED <<changeSets, nextChangeSetId>>
    /\ ArgsUnchanged

InitConcurrent ==
    /\ entry = "concurrent"
    /\ StackName \in StackNames
    /\ noEmptyChangeSet \in BOOLEAN
    /\ noExecuteChageSet \in BOOLEAN
    /\ noDeleteFailedChangeSet \in BOOLEAN
    /\ parameterOverrides = <<>>
    /\ numberString = <<>>
    /\ pc = "concurrent"
    /\ described = None
    /\ stack = None
    /\ cset = None
    /\ changeSetStatus = None
    /\ calls = <<>>
    /\ outcome = Pending
    /\ runs = [r \in Runs |-> NewRun("getStack")]
    /\ changeSets = {}
    /\ nextChangeSetId = 1

NextConcurrent ==
    \E r \in Runs :
        \/ RunLookupStack(r)
        \/ RunCreateChangeSet(r)
        \/ RunWaitChangeSetCreateComplete(r)
        \/ RunDescribeChangeSet(r)
        \/ RunDeleteChangeSet(r)
        \/ RunGenCfnUrl(r)
        \/ RunExecuteChangeSet(r)
        \/ RunWaitStackUpdateComplete(r)

SpecConcurrent == InitConcurrent /\ [][NextConcurrent]_vars

(* --------------------------- specification ---------------------------- *)
Init ==
    /\ entry \in {"deployStack", "getStackOutputs", "parseParameters",
                  "parseNumber"}
    /\ StackName \in IF entry \in {"parseParameters", "parseNumber"}
                     THEN {"app"} ELSE StackNames
    /\ noEmptyChangeSet \in IF entry = "deployStack" THEN BOOLEAN ELSE {FALSE}
    /\ noExecuteChageSet \in IF entry = "deployStack" THEN BOOLEAN ELSE {FALSE}
    /\ noDeleteFailedChangeSet \in
           IF entry = "deployStack" THEN BOOLEAN ELSE {FALSE}
    /\ parameterOverrides \in
           IF entry = "parseParameters" THEN SeqsUpTo(Chars, MaxLen) ELSE {<<>>}
    /\ numberString \in
           IF entry = "parseNumber" THEN SeqsUpTo(NumChars, MaxNumLen) ELSE {<<>>}
    /\ pc = IF entry \in {"parseParameters", "parseNumber"} THEN entry
            ELSE "getStack"
    /\ described = None
    /\ stack = None
    /\ cset = None
    /\ changeSetStatus = None
    /\ calls = <<>>
    /\ outcome = Pending
    /\ runs = [r \in Runs |-> NewRun("idle")]
    /\ changeSets = {}
    /\ nextChangeSetId = 1

Next ==
    \/ LookupStack
    \/ CreateStack
    \/ WaitStackCreateComplete
    \/ CreateChangeSet
    \/ WaitChangeSetCreateComplete
    \/ DescribeChangeSet
    \/ DeleteChangeSet
    \/ GenCfnUrl
    \/ ExecuteChangeSet
    \/ WaitStackUpdateComplete
    \/ GetStackOutputs
    \/ CallParseParameters
    \/ CallParseNumber

Spec == Init /\ [][Next]_vars

(* ------------------------ vocabulary of the claims -------------------- *)
Called(op) == \E i \in 1..Len(calls) : calls[i].op = op
CalledOk(op) == \E i \in 1..Len(calls) : calls[i].op = op /\ calls[i].ok
CalledFailed(op) == \E i \in 1..Len(calls) : calls[i].op = op /\ ~calls[i].ok
CountOf(op) == Cardinality({ i \in 1..Len(calls) : calls[i].op = op })

ChangeSetOps ==
    {"createChangeSet", "describeChangeSet", "deleteChangeSet",
     "executeChangeSet", "waitFor:changeSetCreateComplete"}

Deploying == entry = "deployStack"
Done == pc = "done"

\* the provider answered the lookup with "this stack does not exist"
LookupNonexistent ==
    /\ described # None
    /\ LET r == Get(described) IN
          \/ /\ ~r.ok
             /\ r.error.code = "ValidationError"
             /\ Includes(r.error.message, DoesNotExist)
          \/ /\ r.ok
             /\ (r.Stacks = None \/ Get(r.Stacks) = <<>>)

\* the provider answered the lookup with a stack
LookupFound ==
    /\ described # None
    /\ Get(described).ok
    /\ Get(described).Stacks # None
    /\ Get(Get(described).Stacks) # <<>>

ExistingStackId == Get(Get(described).Stacks)[1].StackId

\* the described change set is FAILED for one of the two no-change reasons
NoChangeReason(reason) ==
    /\ reason # None
    /\ \/ Includes(Get(reason), <<"No", "updates", "are", "to", "be", "performed">>)
       \/ Includes(Get(reason),
              <<"The", "submitted", "information", "didn't", "contain", "changes">>)

DescribedFailed ==
    changeSetStatus # None /\ Get(changeSetStatus).Status = "FAILED"

FailedMessage(reason) ==
    <<"Failed", "to", "create", "Change", "Set", ":">>
        \o (IF reason = None THEN <<"undefined">> ELSE Get(reason))

(* ---------------------------------------------------------------------- *)
(* C1: when the lookup reports the stack as nonexistent, deployStack       *)
(* issues createStack and never issues any change-set call.                *)
C1_NonexistentCreatesNoChangeSet ==
    (Deploying /\ LookupNonexistent) =>
        /\ \A i \in 1..Len(calls) : calls[i].op \notin ChangeSetOps
        /\ pc # "createStack" => Called("createStack")

C1_Witness ==
    /\ Deploying /\ LookupNonexistent /\ Done
    /\ outcome.kind = "returned"
    /\ Called("createStack")

(* C2: every run against an existing stack ends either by returning the    *)
(* stack identifier or by raising an error, cleanup included.              *)
C2_EndsWithIdOrError ==
    (Deploying /\ LookupFound /\ Done) =>
        \/ outcome.kind = "threw"
        \/ outcome = Returned(Some(ExistingStackId))

(* C3 as stated: with noEmptyChangeSet, a FAILED change set with a         *)
(* no-change reason makes the run return the stack id, never executing.    *)
C3_Original ==
    (Deploying /\ noEmptyChangeSet /\ DescribedFailed
        /\ NoChangeReason(Get(changeSetStatus).StatusReason)) =>
        /\ ~Called("executeChangeSet")
        /\ Done => outcome = Returned(Some(ExistingStackId))

(* C3 amended: the same, provided the deleteChangeSet call, when made,     *)
(* succeeds; when it fails the run ends with that provider error.          *)
C3_NoChangeIsSuccess ==
    (Deploying /\ noEmptyChangeSet /\ DescribedFailed
        /\ NoChangeReason(Get(changeSetStatus).StatusReason)) =>
        /\ ~Called("executeChangeSet")
        /\ Done =>
              IF CalledFailed("deleteChangeSet")
              THEN outcome.kind = "threw" /\ outcome.error \in ProviderErrors
              ELSE outcome = Returned(Some(ExistingStackId))

C3_Witness ==
    /\ Deploying /\ noEmptyChangeSet /\ DescribedFailed /\ Done
    /\ Get(changeSetStatus).StatusReason =
           Some(<<"Error", ":", "No", "updates", "are", "to", "be", "performed", ".">>)
    /\ CalledOk("deleteChangeSet")
    /\ outcome = Returned(Some(ExistingStackId))

(* C4 as stated: a FAILED change set outside the no-change exception makes *)
(* the run fail with an error embedding the status reason.                 *)
C4_Original ==
    (Deploying /\ DescribedFailed /\ Done
        /\ ~(noEmptyChangeSet
             /\ NoChangeReason(Get(changeSetStatus).StatusReason))) =>
        /\ outcome.kind = "threw"
        /\ outcome.error.message = FailedMessage(Get(changeSetStatus).StatusReason)

(* C4 amended: the same, provided the deleteChangeSet call, when made,     *)
(* succeeds; when it fails the run fails with that provider error instead. *)
(* An absent reason is embedded as the word undefined.                     *)
C4_FailedChangeSetFails ==
    (Deploying /\ DescribedFailed /\ Done
        /\ ~(noEmptyChangeSet
             /\ NoChangeReason(Get(changeSetStatus).StatusReason))) =>
        /\ outcome.kind = "threw"
        /\ IF CalledFailed("deleteChangeSet")
           THEN outcome.error \in ProviderErrors
           ELSE /\ outcome.error.message =
                       FailedMessage(Get(changeSetStatus).StatusReason)
                /\ Get(changeSetStatus).StatusReason # None =>
                       Includes(outcome.error.message,
                                Get(Get(changeSetStatus).StatusReason))

C4_Witness ==
    /\ Deploying /\ DescribedFailed /\ Done
    /\ ~noEmptyChangeSet
    /\ NoChangeReason(Get(changeSetStatus).StatusReason)
    /\ outcome.kind = "threw"
    /\ outcome.error.message = FailedMessage(Get(changeSetStatus).StatusReason)

(* C5: in cleanup deleteChangeSet is called iff the described status is    *)
(* FAILED and noDeleteFailedChangeSet is off; at most once, and before the *)
(* outcome of the run is decided.                                          *)
C5_DeleteIffFailedAndNotSkipped ==
    Deploying =>
        /\ CountOf("deleteChangeSet") <= 1
        /\ Called("deleteChangeSet") =>
               DescribedFailed /\ ~noDeleteFailedChangeSet
        /\ (DescribedFailed /\ ~noDeleteFailedChangeSet
               /\ ~Called("deleteChangeSet")) =>
               pc = "deleteChangeSet" /\ outcome = Pending
        /\ (DescribedFailed /\ ~noDeleteFailedChangeSet /\ Done) =>
               CountOf("deleteChangeSet") = 1

C5_Witness ==
    /\ Deploying /\ Done /\ DescribedFailed
    /\ CountOf("deleteChangeSet") = 1
    /\ outcome.kind = "returned"

(* C6 as stated: with no-execute, executeChangeSet and the update wait are *)
(* never called, and a successfully created change set makes the run       *)
(* return the stack id, the change set left undeleted.                     *)
C6_Original ==
    (Deploying /\ noExecuteChageSet) =>
        /\ ~Called("executeChangeSet")
        /\ ~Called("waitFor:stackUpdateComplete")
        /\ (CalledOk("waitFor:changeSetCreateComplete") /\ Done) =>
               /\ outcome = Returned(Some(ExistingStackId))
               /\ ~Called("deleteChangeSet")

(* C6 amended: with no-execute, executeChangeSet and the update wait are   *)
(* never called; after a successful creation the run makes no further      *)
(* provider call, and returns the stack id if the link shortening          *)
(* succeeds, and fails with the shortener's error if it does not.          *)
C6_NoExecuteStops ==
    (Deploying /\ noExecuteChageSet) =>
        /\ ~Called("executeChangeSet")
        /\ ~Called("waitFor:stackUpdateComplete")
        /\ CalledOk("waitFor:changeSetCreateComplete") =>
               /\ pc \in {"genCfnUrl", "done"}
               /\ ~Called("deleteChangeSet")
               /\ ~Called("describeChangeSet")
               /\ Done =>
                     IF CalledOk("shorten")
                     THEN outcome = Returned(Some(ExistingStackId))
                     ELSE outcome.kind = "threw"
                          /\ outcome.error \in ShortenerErrors

C6_Witness ==
    /\ Deploying /\ noExecuteChageSet /\ Done
    /\ CalledOk("waitFor:changeSetCreateComplete")
    /\ CalledOk("shorten")
    /\ outcome = Returned(Some(ExistingStackId))

(* C7: a failed shortening call is fatal: the no-execute run fails with    *)
(* that error although the change set was created, and no deleteChangeSet  *)
(* or executeChangeSet call is made.                                       *)
C7_ShortenerFailureIsFatal ==
    (Deploying /\ CalledFailed("shorten")) =>
        /\ Done
        /\ outcome.kind = "threw"
        /\ outcome.error \in ShortenerErrors
        /\ noExecuteChageSet
        /\ cset # None
        /\ CalledOk("waitFor:changeSetCreateComplete")
        /\ calls[Len(calls)].op = "shorten"
        /\ ~Called("deleteChangeSet")
        /\ ~Called("executeChangeSet")

C7_Witness ==
    /\ Deploying /\ Done /\ CalledFailed("shorten")
    /\ outcome.kind = "threw"
    /\ cset # None

(* C8: only a ValidationError whose message matches "does not exist" is    *)
(* the not-found outcome; any other lookup error is rethrown unchanged, so *)
(* deployStack fails with it before createStack or createChangeSet and     *)
(* getStackOutputs fails with it instead of returning an empty map.        *)
C8_OnlyDoesNotExistIsNotFound ==
    (described # None /\ ~Get(described).ok) =>
        LET e == Get(described).error IN
        IF e.code = "ValidationError" /\ Includes(e.message, DoesNotExist)
        THEN /\ outcome.kind # "threw" \/ Len(calls) > 1
             /\ entry = "getStackOutputs" => outcome = Returned(<<>>)
             /\ (Deploying /\ Len(calls) = 1) => pc = "createStack"
        ELSE /\ Done
             /\ outcome = Threw(e)
             /\ Len(calls) = 1
             /\ ~Called("createStack")
             /\ ~Called("createChangeSet")

C8_Witness ==
    /\ Deploying /\ Done
    /\ described # None /\ ~Get(described).ok
    /\ Get(described).error.code = "AccessDenied"
    /\ Includes(Get(described).error.message, DoesNotExist)
    /\ outcome = Threw(Get(described).error)

(* ---------------------------------------------------------------------- *)
\* what the claim about parseParameters calls the key and the value of a
\* piece: the text before and after its first '=', the piece trimmed first
FirstEq(t) ==
    IF \E i \in 1..Len(t) : t[i] = "="
    THEN CHOOSE i \in 1..Len(t) : t[i] = "=" /\ \A j \in 1..(i - 1) : t[j] # "="
    ELSE 0

PieceKey(piece) ==
    LET t == Trim(piece) IN
    IF FirstEq(t) = 0 THEN t ELSE SubSeq(t, 1, FirstEq(t) - 1)

PieceValue(piece) ==
    LET t == Trim(piece) IN
    IF FirstEq(t) = 0 THEN None ELSE Some(SubSeq(t, FirstEq(t) + 1, Len(t)))

RECURSIVE FirstSeenKeys(_, _)
FirstSeenKeys(pieces, seen) ==
    IF pieces = <<>> THEN seen
    ELSE FirstSeenKeys(Tail(pieces),
             IF \E i \in 1..Len(seen) : seen[i] = PieceKey(Head(pieces))
             THEN seen
             ELSE Append(seen, PieceKey(Head(pieces))))

RECURSIVE ValuesGivenFor(_, _)
ValuesGivenFor(k, pieces) ==
    IF pieces = <<>> THEN <<>>
    ELSE (IF PieceKey(Head(pieces)) = k /\ PieceValue(Head(pieces)) # None
          THEN <<Get(PieceValue(Head(pieces)))>>
          ELSE <<>>) \o ValuesGivenFor(k, Tail(pieces))

RECURSIVE CommaJoin(_)
CommaJoin(vals) ==
    IF Len(vals) = 1 THEN vals[1]
    ELSE vals[1] \o <<",">> \o CommaJoin(Tail(vals))

ClaimedParameters(s) ==
    LET pieces == Split(s, ",")
        keys == FirstSeenKeys(pieces, <<>>)
    IN [i \in 1..Len(keys) |->
           [ParameterKey |-> keys[i],
            ParameterValue |->
                IF ValuesGivenFor(keys[i], pieces) = <<>> THEN None
                ELSE Some(CommaJoin(ValuesGivenFor(keys[i], pieces)))]]

(* C9: parseParameters returns one entry per distinct key, in first-seen   *)
(* order, whose value is the comma-join of all the values given for the    *)
(* key, in encounter order.                                                *)
C9_OneEntryPerKeyWithJoinedValues ==
    (entry = "parseParameters" /\ Done) =>
        outcome = Returned(ClaimedParameters(parameterOverrides))

(* C10: getStackOutputs returns the empty map when the stack is not found, *)
(* otherwise a map with unique keys holding exactly the outputs that have  *)
(* a non-empty key and a non-empty value, the later output winning a       *)
(* shared key.                                                             *)
C10_OutputsMap ==
    (entry = "getStackOutputs" /\ Done /\ outcome.kind = "returned") =>
        LET m == outcome.value
            outs == IF LookupFound
                       /\ Get(Get(described).Stacks)[1].Outputs # None
                    THEN Get(Get(Get(described).Stacks)[1].Outputs)
                    ELSE <<>>
            Kept(i) == /\ outs[i].OutputKey \notin {None, Some("")}
                       /\ outs[i].OutputValue \notin {None, Some("")}
        IN /\ LookupNonexistent => m = <<>>
           /\ \A i, j \in 1..Len(m) : m[i][1] = m[j][1] => i = j
           /\ \A i \in 1..Len(m) :
                 \E j \in 1..Len(outs) :
                    /\ Kept(j)
                    /\ outs[j].OutputKey = Some(m[i][1])
                    /\ outs[j].OutputValue = m[i][2]
                    /\ \A k \in (j + 1)..Len(outs) :
                          Kept(k) => outs[k].OutputKey # outs[j].OutputKey
           /\ \A j \in 1..Len(outs) :
                 Kept(j) => \E i \in 1..Len(m) : Some(m[i][1]) = outs[j].OutputKey

C10_Witness ==
    /\ entry = "getStackOutputs" /\ Done /\ LookupFound
    /\ Get(Get(described).Stacks)[1].Outputs =
           Some(<< [OutputKey |-> Some("k1"), OutputValue |-> Some("v1")],
                   [OutputKey |-> Some("k1"), OutputValue |-> Some("v2")] >>)
    /\ outcome = Returned(<< <<"k1", Some("v2")>> >>)

(* ---------------------------------------------------------------------- *)
\* the leading integer of a string, as the claim about parseNumber reads
\* it: after white space and an optional sign, the longest run of decimal
\* digits, None when there is none
DecimalDigits == {"0", "1", "7"}

RECURSIVE SumDigits(_, _)
SumDigits(u, k) ==
    IF k = 0 THEN 0
    ELSE SumDigits(u, k - 1) * 10
         + (CASE u[k] = "0" -> 0 [] u[k] = "1" -> 1 [] u[k] = "7" -> 7)

LeadingInteger(str) ==
    LET lead == CHOOSE i \in 0..Len(str) :
                    /\ \A j \in 1..i : str[j] = " "
                    /\ i < Len(str) => str[i + 1] # " "
        t == SubSeq(str, lead + 1, Len(str))
        signed == t # <<>> /\ t[1] \in {"+", "-"}
        u == IF signed THEN Tail(t) ELSE t
        k == CHOOSE i \in 0..Len(u) :
                 /\ \A j \in 1..i : u[j] \in DecimalDigits
                 /\ i < Len(u) => u[i + 1] \notin DecimalDigits
    IN IF k = 0 THEN None
       ELSE Some((IF signed /\ t[1] = "-" THEN -1 ELSE 1) * SumDigits(u, k))

(* C11: parseNumber is absent exactly when the input has no leading        *)
(* integer or its leading integer is zero, and is the leading integer      *)
(* otherwise, negative values included.                                    *)
C11_AbsentIffNoneOrZero ==
    (entry = "parseNumber" /\ Done) =>
        outcome = Returned(IF LeadingInteger(numberString) \in {None, Some(0)}
                           THEN None
                           ELSE LeadingInteger(numberString))

(* ---------------------------------------------------------------------- *)
\* position of the only call of op, 0 when there is none
IndexOf(op) ==
    IF Called(op) THEN CHOOSE i \in 1..Len(calls) : calls[i].op = op ELSE 0

OpsIssued == [i \in 1..Len(calls) |-> calls[i].op]

(* C12: on the update path the provider calls come in the order            *)
(* createChangeSet, wait changeSetCreateComplete, executeChangeSet, wait   *)
(* stackUpdateComplete, each only after the previous one succeeded; the    *)
(* stack id is returned only after the update wait succeeded, and a failed *)
(* execute or update wait ends the run with that error.                    *)
C12_UpdateCallsInOrder ==
    (Deploying /\ LookupFound) =>
        /\ \A i \in 1..Len(calls) :
              /\ calls[i].op = "waitFor:changeSetCreateComplete" =>
                    i > 1 /\ calls[i - 1].op = "createChangeSet" /\ calls[i - 1].ok
              /\ calls[i].op = "executeChangeSet" =>
                    /\ i > 1
                    /\ calls[i - 1].op = "waitFor:changeSetCreateComplete"
                    /\ calls[i - 1].ok
              /\ calls[i].op = "waitFor:stackUpdateComplete" =>
                    i > 1 /\ calls[i - 1].op = "executeChangeSet" /\ calls[i - 1].ok
        /\ (Called("executeChangeSet") /\ outcome.kind = "returned") =>
              /\ calls[Len(calls)].op = "waitFor:stackUpdateComplete"
              /\ calls[Len(calls)].ok
              /\ outcome = Returned(Some(ExistingStackId))
        /\ CalledFailed("executeChangeSet") =>
              /\ Done /\ outcome.kind = "threw" /\ outcome.error \in ProviderErrors
              /\ calls[Len(calls)].op = "executeChangeSet"
        /\ CalledFailed("waitFor:stackUpdateComplete") =>
              Done /\ outcome.kind = "threw" /\ outcome.error \in WaiterErrors

C12_Witness ==
    /\ Deploying /\ LookupFound /\ Done
    /\ OpsIssued = <<"describeStacks", "createChangeSet",
                     "waitFor:changeSetCreateComplete", "executeChangeSet",
                     "waitFor:stackUpdateComplete">>
    /\ outcome = Returned(Some(ExistingStackId))

(* C13: on the create path the new stack's id is returned only after the   *)
(* stackCreateComplete wait succeeded; a failed createStack or wait ends   *)
(* the run with that error and without any further provider call.          *)
C13_CreateWaitsForCompletion ==
    (Deploying /\ LookupNonexistent) =>
        /\ outcome.kind = "returned" =>
              /\ OpsIssued = <<"describeStacks", "createStack",
                               "waitFor:stackCreateComplete">>
              /\ calls[2].ok /\ calls[3].ok
              /\ outcome.value = Some(StackIdOf(StackName))
        /\ CalledFailed("createStack") =>
              /\ Done /\ outcome.kind = "threw" /\ outcome.error \in ProviderErrors
              /\ OpsIssued = <<"describeStacks", "createStack">>
        /\ CalledFailed("waitFor:stackCreateComplete") =>
              /\ Done /\ outcome.kind = "threw" /\ outcome.error \in WaiterErrors
              /\ OpsIssued = <<"describeStacks", "createStack",
                               "waitFor:stackCreateComplete">>

C13_Witness ==
    /\ Deploying /\ LookupNonexistent /\ Done
    /\ CalledFailed("waitFor:stackCreateComplete")
    /\ outcome.kind = "threw"

(* C14: describeChangeSet and deleteChangeSet are called only in runs      *)
(* whose changeSetCreateComplete wait failed: never after that wait        *)
(* succeeded, whatever fails later, and never after a failed               *)
(* createChangeSet.                                                        *)
C14_CleanupOnlyAfterFailedWait ==
    Deploying =>
        /\ (Called("describeChangeSet") \/ Called("deleteChangeSet")) =>
              /\ CalledFailed("waitFor:changeSetCreateComplete")
              /\ ~CalledOk("waitFor:changeSetCreateComplete")
              /\ CalledOk("createChangeSet")
              /\ Called("describeChangeSet")
              /\ calls[IndexOf("describeChangeSet") - 1].op =
                     "waitFor:changeSetCreateComplete"
        /\ CalledOk("waitFor:changeSetCreateComplete") =>
              ~Called("describeChangeSet") /\ ~Called("deleteChangeSet")
        /\ CalledFailed("createChangeSet") =>
              Done /\ calls[Len(calls)].op = "createChangeSet"

C14_Witness ==
    /\ Deploying /\ Done
    /\ CalledOk("waitFor:changeSetCreateComplete")
    /\ CalledFailed("waitFor:stackUpdateComplete")
    /\ ~Called("describeChangeSet")

(* C15: within one run every provider operation is invoked at most once,   *)
(* and at most one of createStack and createChangeSet is invoked.          *)
C15_NoLocalRetry ==
    Deploying =>
        /\ \A i, j \in 1..Len(calls) : calls[i].op = calls[j].op => i = j
        /\ ~(Called("createStack") /\ Called("createChangeSet"))

C15_Witness ==
    /\ Deploying /\ Done
    /\ CalledFailed("deleteChangeSet")
    /\ CountOf("deleteChangeSet") = 1
    /\ Len(calls) = 5

(* C16: once executeChangeSet has been called the run makes no further     *)
(* mutating provider call, whatever the execution or the update wait       *)
(* answers.                                                                *)
C16_NoRollbackAfterExecute ==
    Deploying =>
        \A i, j \in 1..Len(calls) :
            (calls[i].op = "executeChangeSet" /\ i < j) =>
                calls[j].op \notin
                    {"deleteChangeSet", "createChangeSet", "createStack",
                     "executeChangeSet"}

C16_Witness ==
    /\ Deploying /\ Done
    /\ CalledOk("executeChangeSet")
    /\ CalledFailed("waitFor:stackUpdateComplete")
    /\ calls[Len(calls)].op = "waitFor:stackUpdateComplete"

(* C17: every change-set operation of a run addresses the pair             *)
(* (ChangeSetName = "<StackName>-CS", StackName) given to createChangeSet. *)
C17_SameChangeSetNameThroughout ==
    Deploying =>
        \A i \in 1..Len(calls) :
            calls[i].op \in ChangeSetOps =>
                /\ calls[i].ChangeSetName = Some(StackName \o "-CS")
                /\ calls[i].StackName = StackName
                /\ Called("createChangeSet")
                /\ calls[i].ChangeSetName =
                       calls[IndexOf("createChangeSet")].ChangeSetName
                /\ calls[i].StackName =
                       calls[IndexOf("createChangeSet")].StackName

C17_Witness ==
    /\ Deploying /\ Done
    /\ StackName = "db"
    /\ CalledOk("deleteChangeSet")
    /\ \A i \in 1..Len(calls) :
           calls[i].op \in ChangeSetOps =>
               calls[i].ChangeSetName = Some("db-CS")

(* C18: when deployStack invocations run concurrently against the same     *)
(* existing stack, each describes, deletes or executes only the change set *)
(* it created itself.                                                      *)
C18_OnlyOwnChangeSet ==
    entry = "concurrent" => \A r \in Runs : runs[r].touched \subseteq {r}

====
